---------------------------- MODULE Spec2Model ----------------------------
(***************************************************************************)
(* The SIR engine of src/src/models/SIRModel.py as a state machine.        *)
(*                                                                         *)
(* Python floats are modelled as exact rationals (num/den in lowest terms, *)
(* den > 0), so every statement below is a statement in exact arithmetic.  *)
(* A Python value is a record with a field "kind"; a raised exception is   *)
(* the value [kind |-> "Raise", err |-> <exception class>].                *)
(***************************************************************************)
EXTENDS Integers, Sequences, FiniteSets

(***************************************************************************)
(* Bounds of the model.                                                    *)
(***************************************************************************)
MaxPop == 2        \* initial compartments are drawn from 0..MaxPop
MaxSteps == 3      \* time_step is not driven beyond MaxSteps
MaxLoop == 2       \* loop(n) is called with n in 0..MaxLoop
MaxDen == 64       \* a step is taken only from a state whose denominators are <= MaxDen

(***************************************************************************)
(* Exact rational arithmetic.                                              *)
(***************************************************************************)
RECURSIVE GCD(_, _)
GCD(a, b) == IF b = 0 THEN a ELSE GCD(b, a % b)

Abs(x) == IF x < 0 THEN -x ELSE x

Norm(n, d) ==
    LET s == IF d < 0 THEN -1 ELSE 1
        g == GCD(Abs(n), Abs(d))
    IN  [num |-> (s * n) \div g, den |-> (s * d) \div g]

Rat(n, d) == Norm(n, d)
Int2Rat(n) == [num |-> n, den |-> 1]
Zero == Int2Rat(0)

RNeg(x) == [num |-> -x.num, den |-> x.den]
RAdd(x, y) ==
    LET g == GCD(x.den, y.den)
    IN  Norm(x.num * (y.den \div g) + y.num * (x.den \div g), (x.den \div g) * y.den)
RSub(x, y) == RAdd(x, RNeg(y))
RMul(x, y) ==
    LET a == Norm(x.num, y.den)
        b == Norm(y.num, x.den)
    IN  [num |-> a.num * b.num, den |-> a.den * b.den]
\* x / y for y # 0
RDiv(x, y) == RMul(x, Norm(y.den, y.num))
RLt(x, y) == x.num * y.den < y.num * x.den

(***************************************************************************)
(* Python values.                                                          *)
(***************************************************************************)
None == [kind |-> "None"]
NotImplemented == [kind |-> "NotImplemented"]
Raise(e) == [kind |-> "Raise", err |-> e]
Number(x) == [kind |-> "Number", v |-> x]
IsRaise(v) == v.kind = "Raise"

(***************************************************************************)
(* SIRModelStateChange: a frozen dataclass without validation.             *)
(***************************************************************************)
SIRModelStateChange(dS, dI, dR) ==
    [kind |-> "SIRModelStateChange", dS |-> dS, dI |-> dI, dR |-> dR]

\* Mutant: an operand that is no StateChange is taken as no change at all.
SIRModelStateChange__add__Coerces(self, other) ==
    IF other.kind = "SIRModelStateChange"
    THEN SIRModelStateChange(RAdd(self.dS, other.dS),
                             RAdd(self.dI, other.dI),
                             RAdd(self.dR, other.dR))
    ELSE self

SIRModelStateChange__add__(self, other) ==
    IF other.kind = "SIRModelStateChange"
    THEN SIRModelStateChange(RAdd(self.dS, other.dS),
                             RAdd(self.dI, other.dI),
                             RAdd(self.dR, other.dR))
    ELSE NotImplemented

SIRModelStateChange__radd__(self, change) ==
    IF change.kind = "SIRModelStateChange"
    THEN SIRModelStateChange__add__(self, change)
    ELSE NotImplemented

(***************************************************************************)
(* SIRModelState: a frozen dataclass; __post_init__ validates it.          *)
(***************************************************************************)
\* Mutant: S is validated twice and I never.
SIRModelState__post_init__SkipsI(S, I, R) ==
    IF RLt(S, Zero) THEN Raise("ValueError")
    ELSE IF RLt(S, Zero) THEN Raise("ValueError")
    ELSE IF RLt(R, Zero) THEN Raise("ValueError")
    ELSE None

SIRModelState__post_init__(S, I, R) ==
    IF RLt(S, Zero) THEN Raise("ValueError")
    ELSE IF RLt(I, Zero) THEN Raise("ValueError")
    ELSE IF RLt(R, Zero) THEN Raise("ValueError")
    ELSE None

SIRModelState(S, I, R) ==
    IF IsRaise(SIRModelState__post_init__(S, I, R))
    THEN SIRModelState__post_init__(S, I, R)
    ELSE [kind |-> "SIRModelState", S |-> S, I |-> I, R |-> R]

N(self) == RAdd(RAdd(self.S, self.I), self.R)

SIRModelState__add__(self, change) ==
    IF change.kind # "SIRModelStateChange"
    THEN Raise("TypeError")
    ELSE SIRModelState(RAdd(self.S, change.dS),
                       RAdd(self.I, change.dI),
                       RAdd(self.R, change.dR))

SIRModelState__radd__(self, change) == SIRModelState__add__(self, change)

(***************************************************************************)
(* SIRModelParam: a frozen dataclass; __post_init__ validates it.          *)
(***************************************************************************)
SIRModelParam__post_init__(beta, mu) ==
    IF RLt(beta, Zero) THEN Raise("ValueError")
    ELSE IF RLt(mu, Zero) THEN Raise("ValueError")
    ELSE None

SIRModelParam(beta, mu) ==
    IF IsRaise(SIRModelParam__post_init__(beta, mu))
    THEN SIRModelParam__post_init__(beta, mu)
    ELSE [kind |-> "SIRModelParam", beta |-> beta, mu |-> mu]

(***************************************************************************)
(* The expression a + b, as Python evaluates it for the operand types of   *)
(* this program: a's __add__ first; when that returns NotImplemented and   *)
(* the operands are of different types, b's __radd__; when that returns    *)
(* NotImplemented too, TypeError.  A number's __add__ and __radd__ return  *)
(* NotImplemented for an operand that is not a number.                     *)
(***************************************************************************)
Dunder__add__(a, b) ==
    CASE a.kind = "SIRModelStateChange" -> SIRModelStateChange__add__(a, b)
      [] a.kind = "SIRModelState" -> SIRModelState__add__(a, b)
      [] OTHER -> IF b.kind = "Number" THEN Number(RAdd(a.v, b.v)) ELSE NotImplemented

Dunder__radd__(b, a) ==
    CASE b.kind = "SIRModelStateChange" -> SIRModelStateChange__radd__(b, a)
      [] b.kind = "SIRModelState" -> SIRModelState__radd__(b, a)
      [] OTHER -> NotImplemented

BinaryAdd(a, b) ==
    IF Dunder__add__(a, b) # NotImplemented
    THEN Dunder__add__(a, b)
    ELSE IF a.kind # b.kind /\ Dunder__radd__(b, a) # NotImplemented
         THEN Dunder__radd__(b, a)
         ELSE Raise("TypeError")

(***************************************************************************)
(* SIRModel.  A method is an operator from the engine to                   *)
(* [self |-> the engine after the call, ret |-> what the call returned or  *)
(* raised].                                                                *)
(***************************************************************************)
SIRModel(state, params) ==
    [time_step |-> 0, state |-> state, params |-> params, history |-> <<>>]

\* Mutant: an empty population is answered with no change.
calculate_change_ZeroGuard(self) ==
    LET S == self.state.S
        I == self.state.I
        mu == self.params.mu
        beta == self.params.beta
        Npop == N(self.state)
    IN  IF Npop = Zero
        THEN [self |-> self, ret |-> SIRModelStateChange(Zero, Zero, Zero)]
        ELSE LET dSt_dt == RDiv(RMul(RMul(RNeg(beta), S), I), Npop)
                 dIt_dt == RSub(RDiv(RMul(RMul(beta, S), I), Npop), RMul(mu, I))
                 dRt_dt == RMul(mu, I)
             IN  [self |-> self, ret |-> SIRModelStateChange(dSt_dt, dIt_dt, dRt_dt)]

\* Mutant: dI lacks the recovery term - mu * I.
calculate_change_NoOutflow(self) ==
    LET S == self.state.S
        I == self.state.I
        mu == self.params.mu
        beta == self.params.beta
        Npop == N(self.state)
    IN  IF Npop = Zero
        THEN [self |-> self, ret |-> Raise("ZeroDivisionError")]
        ELSE LET dSt_dt == RDiv(RMul(RMul(RNeg(beta), S), I), Npop)
                 dIt_dt == RDiv(RMul(RMul(beta, S), I), Npop)
                 dRt_dt == RMul(mu, I)
             IN  [self |-> self, ret |-> SIRModelStateChange(dSt_dt, dIt_dt, dRt_dt)]

\* Mutant: the incidence is divided by S + I, not by N.
calculate_change_IgnoresR(self) ==
    LET S == self.state.S
        I == self.state.I
        mu == self.params.mu
        beta == self.params.beta
        Npop == RAdd(S, I)
    IN  IF Npop = Zero
        THEN [self |-> self, ret |-> Raise("ZeroDivisionError")]
        ELSE LET dSt_dt == RDiv(RMul(RMul(RNeg(beta), S), I), Npop)
                 dIt_dt == RSub(RDiv(RMul(RMul(beta, S), I), Npop), RMul(mu, I))
                 dRt_dt == RMul(mu, I)
             IN  [self |-> self, ret |-> SIRModelStateChange(dSt_dt, dIt_dt, dRt_dt)]

\* Mutant: calculate_change advances the engine's time_step.
calculate_change_Ticks(self) ==
    LET S == self.state.S
        I == self.state.I
        mu == self.params.mu
        beta == self.params.beta
        Npop == N(self.state)
        ticked == [self EXCEPT !.time_step = @ + 1]
    IN  IF Npop = Zero
        THEN [self |-> ticked, ret |-> Raise("ZeroDivisionError")]
        ELSE LET dSt_dt == RDiv(RMul(RMul(RNeg(beta), S), I), Npop)
                 dIt_dt == RSub(RDiv(RMul(RMul(beta, S), I), Npop), RMul(mu, I))
                 dRt_dt == RMul(mu, I)
             IN  [self |-> ticked, ret |-> SIRModelStateChange(dSt_dt, dIt_dt, dRt_dt)]

calculate_change(self) ==
    LET S == self.state.S
        I == self.state.I
        R == self.state.R
        mu == self.params.mu
        beta == self.params.beta
        Npop == N(self.state)
    IN  IF Npop = Zero
        THEN [self |-> self, ret |-> Raise("ZeroDivisionError")]
        ELSE LET dSt_dt == RDiv(RMul(RMul(RNeg(beta), S), I), Npop)
                 dIt_dt == RSub(RDiv(RMul(RMul(beta, S), I), Npop), RMul(mu, I))
                 dRt_dt == RMul(mu, I)
             IN  [self |-> self, ret |-> SIRModelStateChange(dSt_dt, dIt_dt, dRt_dt)]

\* Mutant: time_step is incremented before the new state is constructed.
step_TicksFirst(self) ==
    LET c == calculate_change(self)
        ticked == [c.self EXCEPT !.time_step = @ + 1]
    IN  IF IsRaise(c.ret) THEN c
        ELSE LET sum == BinaryAdd(c.self.state, c.ret)
             IN  IF IsRaise(sum) THEN [self |-> ticked, ret |-> sum]
                 ELSE [self |-> [ticked EXCEPT !.state = sum], ret |-> None]

\* Mutant: step() appends the new state to history itself.
step_Records(self) ==
    LET c == calculate_change(self)
    IN  IF IsRaise(c.ret) THEN c
        ELSE LET sum == BinaryAdd(c.self.state, c.ret)
             IN  IF IsRaise(sum) THEN [self |-> c.self, ret |-> sum]
                 ELSE [self |-> [c.self EXCEPT !.state = sum,
                                               !.time_step = @ + 1,
                                               !.history = Append(@, sum)],
                       ret |-> None]

step(self) ==
    LET c == calculate_change(self)
    IN  IF IsRaise(c.ret) THEN c
        ELSE LET sum == BinaryAdd(c.self.state, c.ret)
             IN  IF IsRaise(sum) THEN [self |-> c.self, ret |-> sum]
                 ELSE [self |-> [c.self EXCEPT !.state = sum,
                                               !.time_step = @ + 1],
                       ret |-> None]

\* Mutant: the state is appended before the step, not after it.
RECURSIVE loop_AppendsFirst(_, _)
loop_AppendsFirst(self, num_time_step) ==
    IF num_time_step <= 0 THEN [self |-> self, ret |-> None]
    ELSE LET s == step([self EXCEPT !.history = Append(@, self.state)])
         IN  IF IsRaise(s.ret) THEN s
             ELSE loop_AppendsFirst(s.self, num_time_step - 1)

\* Mutant: range(num_time_step + 1).
RECURSIVE loop_ExtraStep(_, _)
loop_ExtraStep(self, num_time_step) ==
    IF num_time_step < 0 THEN [self |-> self, ret |-> None]
    ELSE LET s == step(self)
         IN  IF IsRaise(s.ret) THEN s
             ELSE loop_ExtraStep([s.self EXCEPT !.history = Append(@, s.self.state)],
                                 num_time_step - 1)

RECURSIVE loop(_, _)
loop(self, num_time_step) ==
    IF num_time_step <= 0 THEN [self |-> self, ret |-> None]
    ELSE LET s == step(self)
         IN  IF IsRaise(s.ret) THEN s
             ELSE loop([s.self EXCEPT !.history = Append(@, s.self.state)],
                       num_time_step - 1)


(***************************************************************************)
(* The state of the program and of its caller.                             *)
(*   model   the engine the caller drives                                  *)
(*   twin    a second engine, constructed from the same arguments           *)
(*   twinRet what the latest step() on twin returned or raised             *)
(*   twinCalls  the number of step() calls made on twin                    *)
(*   call    the latest call: its name, the engine it found (self) and its *)
(*           arguments                                                     *)
(*   ret     what the latest call returned or raised                       *)
(*   done    one entry per step the engine completed, in order: the state  *)
(*           the step produced and whether loop() made the step            *)
(***************************************************************************)
VARIABLES model, twin, twinRet, twinCalls, call, ret, done

vars == <<model, twin, twinRet, twinCalls, call, ret, done>>

\* The arguments the caller constructs values from.
InitPop == {Int2Rat(i) : i \in -1 .. MaxPop}
InitRecovered == {Int2Rat(-1), Zero, Int2Rat(1)}
Rates == {Rat(-1, 2), Zero, Rat(1, 2), Int2Rat(2)}
CtorArgs == {Int2Rat(-1), Rat(1, 2)}

\* tests/models/test_sir_model.py: State(S=90, I=10), Param(beta=0.5, mu=0)
ScenarioState == SIRModelState(Int2Rat(90), Int2Rat(10), Zero)
ScenarioParam == SIRModelParam(Rat(1, 2), Zero)

\* The values the constructors accept.
InitStates ==
    {s \in {SIRModelState(S, I, R) : S \in InitPop, I \in InitPop, R \in InitRecovered} :
        ~IsRaise(s)} \cup {ScenarioState}
InitParams ==
    {p \in {SIRModelParam(b, m) : b \in Rates, m \in Rates} : ~IsRaise(p)}

Call(op, self, args) == [op |-> op, self |-> self, args |-> args]

Init ==
    \E s \in InitStates, p \in InitParams :
        /\ model = SIRModel(s, p)
        /\ twin = SIRModel(s, p)
        /\ twinRet = None
        /\ twinCalls = 0
        /\ call = Call("SIRModel", None, <<s, p>>)
        /\ ret = None
        /\ done = <<>>

\* The model follows the engine through the states whose denominators are
\* within MaxDen.
Small(state) ==
    /\ state.S.den <= MaxDen
    /\ state.I.den <= MaxDen
    /\ state.R.den <= MaxDen

\* The n steps of loop(self, n) stay within MaxDen.
RECURSIVE CanRun(_, _)
CanRun(self, n) ==
    IF n <= 0 THEN TRUE
    ELSE IF IsRaise(step(self).ret) THEN TRUE
    ELSE IF ~Small(step(self).self.state) THEN FALSE
    ELSE CanRun(step(self).self, n - 1)

\* The engine after k successful calls of step().
RECURSIVE StepN(_, _)
StepN(self, k) == IF k = 0 THEN self ELSE step(StepN(self, k - 1)).self

Completed(self, k, looped) ==
    [i \in 1 .. k |-> [state |-> StepN(self, i).state, looped |-> looped]]

CalculateChange ==
    /\ model' = calculate_change(model).self
    /\ ret' = calculate_change(model).ret
    /\ call' = Call("calculate_change", model, <<>>)
    /\ UNCHANGED <<twin, twinRet, twinCalls, done>>

Step ==
    /\ model.time_step < MaxSteps
    /\ CanRun(model, 1)
    /\ model' = step(model).self
    /\ ret' = step(model).ret
    /\ call' = Call("step", model, <<>>)
    /\ done' = done \o Completed(model, model'.time_step - model.time_step, FALSE)
    /\ UNCHANGED <<twin, twinRet, twinCalls>>

Loop(n) ==
    /\ model.time_step + n <= MaxSteps
    /\ CanRun(model, n)
    /\ model' = loop(model, n).self
    /\ ret' = loop(model, n).ret
    /\ call' = Call("loop", model, <<n>>)
    /\ done' = done \o Completed(model, model'.time_step - model.time_step, TRUE)
    /\ UNCHANGED <<twin, twinRet, twinCalls>>

\* The operands the caller adds: the engine's state, a change, a number.
SampleChange == SIRModelStateChange(Int2Rat(-1), Int2Rat(1), Zero)
Operands(self) ==
    {self.state, SampleChange, Number(Int2Rat(1))}
        \cup {c \in {calculate_change(self).ret} : ~IsRaise(c)}

Add(a, b) ==
    /\ ret' = BinaryAdd(a, b)
    /\ call' = Call("add", model, <<a, b>>)
    /\ UNCHANGED <<model, twin, twinRet, twinCalls, done>>

NewState(S, I, R) ==
    /\ ret' = SIRModelState(S, I, R)
    /\ call' = Call("SIRModelState", model, <<S, I, R>>)
    /\ UNCHANGED <<model, twin, twinRet, twinCalls, done>>

NewParam(beta, mu) ==
    /\ ret' = SIRModelParam(beta, mu)
    /\ call' = Call("SIRModelParam", model, <<beta, mu>>)
    /\ UNCHANGED <<model, twin, twinRet, twinCalls, done>>

Next ==
    \/ CalculateChange
    \/ Step
    \/ \E n \in 0 .. MaxLoop : Loop(n)
    \/ \E S \in CtorArgs, I \in CtorArgs, R \in CtorArgs : NewState(S, I, R)

Spec == Init /\ [][Next]_vars

(***************************************************************************)
(* The value types alone: the caller adds values and constructs            *)
(* parameters; the engine is left as constructed.                          *)
(***************************************************************************)
NextValues ==
    \/ \E a \in Operands(model), b \in Operands(model) : Add(a, b)
    \/ \E beta \in CtorArgs, mu \in CtorArgs : NewParam(beta, mu)

SpecValues == Init /\ [][NextValues]_vars

(***************************************************************************)
(* Two identically constructed engines: the caller runs loop(n) once on    *)
(* model and calls step() on twin, one call after the other until one      *)
(* raises.                                                                 *)
(***************************************************************************)
TwinStep ==
    /\ twinCalls < MaxLoop
    /\ ~IsRaise(twinRet)
    /\ CanRun(twin, 1)
    /\ twin' = step(twin).self
    /\ twinRet' = step(twin).ret
    /\ twinCalls' = twinCalls + 1
    /\ UNCHANGED <<model, call, ret, done>>

LoopOnce(n) ==
    /\ call.op = "SIRModel"
    /\ Loop(n)

NextTwin ==
    \/ TwinStep
    \/ \E n \in 0 .. MaxLoop : LoopOnce(n)

SpecTwin == Init /\ [][NextTwin]_vars


(***************************************************************************)
(* Shorthands of the properties.                                           *)
(***************************************************************************)
NonNegative(s) == ~RLt(s.S, Zero) /\ ~RLt(s.I, Zero) /\ ~RLt(s.R, Zero)
Fresh(self) == self.time_step = 0 /\ self.history = <<>>
IsChange(v) == v.kind = "SIRModelStateChange"
IsState(v) == v.kind = "SIRModelState"
EngineCall == call.op \in {"calculate_change", "step", "loop"}
WasLooped(d) == d.looped
Looped == SelectSeq(done, WasLooped)
\* beta * S * I of the engine a call found
Incidence(self) == RMul(self.params.beta, RMul(self.state.S, self.state.I))
\* mu * I of the engine a call found
Recovery(self) == RMul(self.params.mu, self.state.I)

(***************************************************************************)
(* C1: every State is non-negative.  The engine's state and every entry of *)
(* its history have S >= 0, I >= 0 and R >= 0, every State a call returns  *)
(* has too, and SIRModelState(S, I, R) raises ValueError exactly when an   *)
(* argument is negative (and otherwise returns the State of its            *)
(* arguments).                                                             *)
(***************************************************************************)
C1_StateNonNegative ==
    /\ NonNegative(model.state)
    /\ \A i \in 1 .. Len(model.history) : NonNegative(model.history[i])
    /\ IsState(ret) => NonNegative(ret)
    /\ call.op = "SIRModelState" =>
          IF \E i \in 1 .. 3 : call.args[i].num < 0
          THEN ret = Raise("ValueError")
          ELSE /\ IsState(ret)
               /\ <<ret.S, ret.I, ret.R>> = call.args

C1_Witness ==
    /\ call.op = "SIRModelState"
    /\ ret = Raise("ValueError")
    /\ model.time_step > 0
    /\ Len(model.history) > 0

(***************************************************************************)
(* C2: after a loop(n) that a fresh engine (time_step 0, empty history)    *)
(* completed, history has n entries, its last entry is the engine's state, *)
(* and its i-th entry is the state after i steps: the initial state is     *)
(* not recorded.                                                           *)
(***************************************************************************)
C2_HistoryGrowth ==
    (call.op = "loop" /\ Fresh(call.self) /\ ~IsRaise(ret)) =>
        /\ Len(model.history) = call.args[1]
        /\ call.args[1] > 0 => model.history[Len(model.history)] = model.state
        /\ \A i \in 1 .. Len(model.history) :
              model.history[i] = StepN(call.self, i).state

C2_Witness ==
    /\ call.op = "loop"
    /\ Fresh(call.self)
    /\ ~IsRaise(ret)
    /\ call.args[1] = 2
    /\ Len(model.history) = 2
    /\ model.history[1] # call.self.state
    /\ model.history[2] # model.history[1]

(***************************************************************************)
(* C3: n calls of step() and one loop(n), on identically constructed       *)
(* engines, end in the same state and time_step, and with the same         *)
(* outcome: when one raises at its k-th step, so does the other.           *)
(***************************************************************************)
C3_StepsEqualLoop ==
    (/\ call.op = "loop"
     /\ \/ twinCalls = call.args[1]
        \/ IsRaise(twinRet) /\ twinCalls <= call.args[1]) =>
        /\ twin.state = model.state
        /\ twin.time_step = model.time_step
        /\ twinRet = ret
        /\ IsRaise(ret) => twinCalls = model.time_step + 1

C3_Witness ==
    /\ call.op = "loop"
    /\ call.args[1] = 2
    /\ twinCalls = 2
    /\ ~IsRaise(ret)
    /\ model.state # call.self.state
    /\ model.time_step = 2

(***************************************************************************)
(* C4, as claimed: history holds one entry per completed step, so          *)
(* len(history) equals time_step and history[i] is the state the (i+1)-th  *)
(* completed step produced.                                                *)
(***************************************************************************)
C4_HistoryPerStep ==
    /\ Len(model.history) = model.time_step
    /\ \A i \in 1 .. Len(model.history) : model.history[i] = done[i].state

(***************************************************************************)
(* C4, amended: history holds one entry per step that loop() completed,    *)
(* in chronological order; a step() the caller makes itself advances       *)
(* time_step and appends nothing, so len(history) <= time_step.            *)
(***************************************************************************)
C4_HistoryPerLoopedStep ==
    /\ Len(done) = model.time_step
    /\ Len(model.history) = Len(Looped)
    /\ \A i \in 1 .. Len(model.history) : model.history[i] = Looped[i].state
    /\ Len(model.history) <= model.time_step

C4_Witness ==
    /\ Len(model.history) = 1
    /\ model.time_step = 3
    /\ ~done[1].looped
    /\ done[2].looped
    /\ model.history[1] # done[1].state

(***************************************************************************)
(* C5: on an engine whose state has N = 0, calculate_change(), step() and  *)
(* loop(n) with n >= 1 raise ZeroDivisionError, which no validation        *)
(* raises, return no StateChange and leave the engine as it was.           *)
(***************************************************************************)
C5_ZeroPopulationRaises ==
    (/\ EngineCall
     /\ N(call.self.state) = Zero
     /\ call.op = "loop" => call.args[1] >= 1) =>
        /\ ret = Raise("ZeroDivisionError")
        /\ model = call.self

C5_Witness ==
    /\ call.op = "loop"
    /\ call.args[1] >= 1
    /\ N(call.self.state) = Zero
    /\ ret = Raise("ZeroDivisionError")

(***************************************************************************)
(* C6: the population is conserved.  The change calculate_change() returns *)
(* has dS + dI + dR = 0, and the N of the engine's state and of every      *)
(* history entry is the N of the state the engine was constructed with.    *)
(***************************************************************************)
C6_Conservation ==
    /\ N(model.state) = N(twin.state)
    /\ \A i \in 1 .. Len(model.history) : N(model.history[i]) = N(twin.state)
    /\ (call.op = "calculate_change" /\ IsChange(ret)) =>
          RAdd(RAdd(ret.dS, ret.dI), ret.dR) = Zero

C6_Witness ==
    /\ call.op = "calculate_change"
    /\ IsChange(ret)
    /\ ret.dS # Zero
    /\ ret.dR # Zero
    /\ model.time_step >= 1
    /\ model.state # twin.state

(***************************************************************************)
(* C7: with N > 0, calculate_change() returns dS = -beta*S*I/N,            *)
(* dI = beta*S*I/N - mu*I, dR = mu*I, and a step() that succeeds leaves    *)
(* the state (S + dS, I + dI, R + dR); State(90, 10, 0) with               *)
(* Param(1/2, 0) gives the change (-9/2, 9/2, 0) and the next state        *)
(* (171/2, 29/2, 0) with N = 100.                                          *)
(***************************************************************************)
C7_ChangeFormula ==
    /\ (call.op = "calculate_change" /\ N(call.self.state) # Zero) =>
          /\ IsChange(ret)
          /\ RMul(ret.dS, N(call.self.state)) = RNeg(Incidence(call.self))
          /\ RMul(ret.dI, N(call.self.state)) =
                RSub(Incidence(call.self),
                     RMul(Recovery(call.self), N(call.self.state)))
          /\ ret.dR = Recovery(call.self)
          /\ (call.self.state = ScenarioState /\ call.self.params = ScenarioParam) =>
                ret = SIRModelStateChange(Rat(-9, 2), Rat(9, 2), Zero)
    /\ (call.op = "step" /\ ~IsRaise(ret)) =>
          /\ RMul(RSub(model.state.S, call.self.state.S), N(call.self.state)) =
                RNeg(Incidence(call.self))
          /\ RMul(RSub(model.state.I, call.self.state.I), N(call.self.state)) =
                RSub(Incidence(call.self),
                     RMul(Recovery(call.self), N(call.self.state)))
          /\ RSub(model.state.R, call.self.state.R) = Recovery(call.self)
          /\ (call.self.state = ScenarioState /\ call.self.params = ScenarioParam) =>
                /\ model.state = SIRModelState(Rat(171, 2), Rat(29, 2), Zero)
                /\ N(model.state) = Int2Rat(100)

C7_Witness ==
    /\ call.op = "step"
    /\ call.self.state = ScenarioState
    /\ call.self.params = ScenarioParam
    /\ ret = None
    /\ model.state.S = Rat(171, 2)

(***************************************************************************)
(* C8, as claimed: an addition with a StateChange operand returns the      *)
(* component-wise sum when both operands are StateChanges and raises for   *)
(* every other operand, a State included, in either order.                 *)
(***************************************************************************)
C8_OnlyChangePlusChange ==
    (call.op = "add" /\ (IsChange(call.args[1]) \/ IsChange(call.args[2]))) =>
        IF IsChange(call.args[1]) /\ IsChange(call.args[2])
        THEN ret = SIRModelStateChange(RAdd(call.args[1].dS, call.args[2].dS),
                                       RAdd(call.args[1].dI, call.args[2].dI),
                                       RAdd(call.args[1].dR, call.args[2].dR))
        ELSE IsRaise(ret)

(***************************************************************************)
(* C8, amended: StateChange + StateChange is the component-wise sum; with  *)
(* any other operand the StateChange defers to that operand.  A State, in  *)
(* either order, then returns the new State (S+dS, I+dI, R+dR), or raises  *)
(* ValueError when one of these is negative; any other operand ends in     *)
(* TypeError.                                                              *)
(***************************************************************************)
Applied(s, c) == <<RAdd(s.S, c.dS), RAdd(s.I, c.dI), RAdd(s.R, c.dR)>>

AppliedResult(s, c) ==
    IF \E i \in 1 .. 3 : Applied(s, c)[i].num < 0
    THEN ret = Raise("ValueError")
    ELSE IsState(ret) /\ <<ret.S, ret.I, ret.R>> = Applied(s, c)

C8_ChangeDefersToState ==
    (call.op = "add" /\ (IsChange(call.args[1]) \/ IsChange(call.args[2]))) =>
        IF IsChange(call.args[1]) /\ IsChange(call.args[2])
        THEN ret = SIRModelStateChange(RAdd(call.args[1].dS, call.args[2].dS),
                                       RAdd(call.args[1].dI, call.args[2].dI),
                                       RAdd(call.args[1].dR, call.args[2].dR))
        ELSE IF IsState(call.args[1]) THEN AppliedResult(call.args[1], call.args[2])
        ELSE IF IsState(call.args[2]) THEN AppliedResult(call.args[2], call.args[1])
        ELSE ret = Raise("TypeError")

C8_Witness ==
    /\ call.op = "add"
    /\ IsChange(call.args[1])
    /\ IsState(call.args[2])
    /\ IsState(ret)
    /\ ret # call.args[2]

(***************************************************************************)
(* C9: calculate_change() leaves the engine (state, params, time_step,     *)
(* history) as it was, and a call that follows another with no call in     *)
(* between returns the same value.                                         *)
(***************************************************************************)
C9_CalculateChangePure ==
    [][call'.op = "calculate_change" =>
          /\ model' = model
          /\ call.op = "calculate_change" => ret' = ret]_vars

C9_Witness ==
    /\ call.op = "calculate_change"
    /\ IsChange(ret)
    /\ ret.dI # Zero
    /\ model.time_step >= 1
    /\ Len(model.history) >= 1

(***************************************************************************)
(* C10: with N > 0, step() raises ValueError exactly when S + dS, I + dI   *)
(* or R + dR is negative, and a step() that raises leaves the engine as it *)
(* was.  A loop(n) that raises did so in its k-th iteration, k in 1..n:    *)
(* the k-1 steps before it stay applied, time_step and history have grown  *)
(* by k-1, and nothing is recorded for the step that failed.               *)
(***************************************************************************)
C10_FailedStepAtomic ==
    /\ (call.op = "step" /\ N(call.self.state) # Zero) =>
          /\ (ret = Raise("ValueError")) <=>
                (\E i \in 1 .. 3 :
                    Applied(call.self.state, calculate_change(call.self).ret)[i].num < 0)
          /\ ret \in {None, Raise("ValueError")}
    /\ (call.op = "step" /\ IsRaise(ret)) => model = call.self
    /\ (call.op = "loop" /\ IsRaise(ret)) =>
          /\ model.time_step - call.self.time_step \in 0 .. call.args[1] - 1
          /\ model.state =
                StepN(call.self, model.time_step - call.self.time_step).state
          /\ model.params = call.self.params
          /\ model.history =
                call.self.history \o
                    [i \in 1 .. model.time_step - call.self.time_step |->
                        StepN(call.self, i).state]
          /\ step(model).ret = ret

C10_Witness ==
    /\ call.op = "loop"
    /\ ret = Raise("ValueError")
    /\ model.time_step = call.self.time_step + 1
    /\ Len(model.history) = Len(call.self.history) + 1
    /\ call.self.time_step > 0

=============================================================================
